---- MODULE Spec2Model ----
(***************************************************************************)
(* A model of combine_epg.py: the EPG combiner.  One main thread creates a *)
(* ThreadPoolExecutor, submits one fetch_epg call per source, consumes the *)
(* futures through as_completed, folds every parsed document into the      *)
(* combined tree (deduplicating channels and programmes), and writes it.   *)
(***************************************************************************)
EXTENDS Integers, Sequences, FiniteSets, TLC

(***************************************************************************)
(* Bounds of the model.                                                    *)
(***************************************************************************)
\* the registry handed to combine_epg_files holds 0..MaxSources sources
MaxSources == 2
\* --workers takes the values 0..MaxWorkers
MaxWorkers == 2

(***************************************************************************)
(* Optional values: None is the empty sequence, Some(v) the sequence <<v>>. *)
(***************************************************************************)
None == <<>>
Some(v) == <<v>>

(***************************************************************************)
(* XML elements.  An element has a tag and attributes that may be missing; *)
(* obj is the identity of the Python object (which parse created it).      *)
(***************************************************************************)
Ch(id) ==
    [tag |-> "channel", id |-> id, channel |-> None, start |-> None,
     stop |-> None, obj |-> None]

Pr(c, s, t) ==
    [tag |-> "programme", id |-> None, channel |-> c, start |-> s,
     stop |-> t, obj |-> None]

\* a child of the root that is neither a channel nor a programme
Other ==
    [tag |-> "other", id |-> Some("1"), channel |-> None, start |-> None,
     stop |-> None, obj |-> None]

\* element.get(attr, ''): the attribute's value, '' when it is missing
Get(e, attr) == IF e[attr] = None THEN "" ELSE e[attr][1]

\* root.findall(tag): the direct children with that tag, in document order
FindAll(root, tag) == SelectSeq(root, LAMBDA e : e.tag = tag)

\* the programme key of lines 150-154
ProgKey(p) == <<Get(p, "channel"), Get(p, "start"), Get(p, "stop")>>

(***************************************************************************)
(* The documents a remote host may serve (children of the tv root).        *)
(***************************************************************************)
DocA == << Ch(Some("1")), Ch(Some("2")), Pr(Some("1"), Some("t1"), Some("t2")) >>

DocB == << Ch(Some("2")), Pr(Some("1"), Some("t1"), Some("t2")),
           Ch(Some("3")), Ch(Some("2")) >>

DocC == << Ch(None), Ch(Some("")), Pr(None, None, None),
           Pr(Some(""), Some(""), Some("")) >>

DocD == << Pr(Some(""), Some(""), Some("")), Other, Ch(Some("3")) >>

DocE == << >>

Docs == {DocA, DocB, DocC, DocD, DocE}

(***************************************************************************)
(* Locators.  A URL is its sequence of parts: a scheme, a path and an      *)
(* optional ".gz" suffix; the empty URL has no part at all.                *)
(***************************************************************************)
UrlXml == << "https://", "h/epg.xml" >>
UrlGz == << "https://", "h/epg.xml", ".gz" >>
UrlEmpty == << >>
UrlNoScheme == << "h/epg.xml" >>

Urls == {UrlXml, UrlGz, UrlEmpty, UrlNoScheme}

\* url.endswith('.gz')
EndsWithGz(url) == Len(url) > 0 /\ url[Len(url)] = ".gz"

\* Request(url) raises ValueError("unknown url type") for a URL with no scheme
HasScheme(url) == Len(url) > 0 /\ url[1] = "https://"

(***************************************************************************)
(* What the network does to one fetch: urlopen or read raises exc, or the  *)
(* response arrives with a Content-Encoding header (hdrGzip) and a body    *)
(* that is gzip-compressed or not (bodyGzip) around an XML text that is    *)
(* well-formed (Some(doc)) or not (None).                                  *)
(***************************************************************************)
NetExceptions == {"URLError", "HTTPError", "TimeoutError", "MemoryError"}

Envs ==
    [exc : NetExceptions, hdrGzip : {FALSE}, bodyGzip : {FALSE}, xml : {None}]
    \cup
    [exc : {"none"}, hdrGzip : BOOLEAN, bodyGzip : BOOLEAN,
     xml : {None} \cup {Some(d) : d \in Docs}]

\* str(e) of the exceptions the fetch can raise; MemoryError() has no message
Str(exc) ==
    CASE exc = "URLError" -> "<urlopen error refused>"
      [] exc = "HTTPError" -> "HTTP Error 404: Not Found"
      [] exc = "TimeoutError" -> "timed out"
      [] exc = "ValueError" -> "unknown url type"
      [] exc = "BadGzipFile" -> "Not a gzipped file"
      [] exc = "ParseError" -> "syntax error: line 1, column 0"
      [] OTHER -> ""

\* ET.fromstring gives every element a Python object of its own
Parse(name, doc) == [i \in 1..Len(doc) |-> [doc[i] EXCEPT !.obj = Some(<<name, i>>)]]

\* The try block of fetch_epg: the exception it raises, or "none".
TryRaises(url, env) ==
    IF ~HasScheme(url) THEN "ValueError"
    ELSE IF env.exc # "none" THEN env.exc
    ELSE IF EndsWithGz(url) \/ env.hdrGzip
         THEN (IF ~env.bodyGzip THEN "BadGzipFile"
               ELSE IF env.xml = None THEN "ParseError" ELSE "none")
         ELSE (IF env.bodyGzip \/ env.xml = None THEN "ParseError" ELSE "none")

\* The exception classes the three except clauses catch: (URLError,
\* HTTPError), ET.ParseError and Exception, that is every one of them.
OnlyNetworkAndParse == {"URLError", "HTTPError", "ParseError"}

Caught ==
    {"URLError", "HTTPError", "ParseError", "ValueError", "TimeoutError",
     "BadGzipFile", "MemoryError"}

\* What a call of fetch_epg ends with: a returned triple (name, root, error)
\* or an exception that escapes it.
Returned(name, root, error) ==
    [raised |-> None, name |-> name, root |-> root, error |-> error]

Escaped(name, exc) ==
    [raised |-> Some(exc), name |-> name, root |-> None, error |-> None]

fetch_epg(name, url, env) ==
    LET exc == TryRaises(url, env)
    IN  IF exc = "none" THEN Returned(name, Some(Parse(name, env.xml[1])), None)
        ELSE IF exc \in Caught THEN Returned(name, None, Some(Str(exc)))
        ELSE Escaped(name, exc)

\* Python's truth value of the error of a result: None and '' are false
Truthy(error) == error # None /\ error[1] # ""

(***************************************************************************)
(* The state of one run of main().                                         *)
(***************************************************************************)
VARIABLES
    sources,          \* the registry: sources[name] is the URL of source name
    max_workers,      \* args.workers
    pc,               \* where the main thread is
    exit_status,      \* None while running, Some(0) or Some(1) at the end
    fut,              \* fut[name]: the future of executor.submit(fetch_epg, ...)
    calls,            \* calls[name]: how many times a worker called fetch_epg
    yielded,          \* yielded[name]: how many times as_completed gave the future
    pre_finished,     \* as_completed: the futures found finished at its start
    waiter,           \* as_completed: waiter.finished_futures, completion order
    cur,              \* the source whose document is being merged (0: none)
    idx,              \* the position of the merge loop in its element list
    combined,         \* the children of the combined tv element
    seen_channels,
    seen_programmes,
    total_channels,
    total_programmes,
    failed_sources,
    out_file,         \* the output file: None, or what was written to it
    write_calls,      \* how many times main called write_xml
    write_io,         \* what the file system did to the write (None before it)
    done_printed,     \* whether main printed its "Done!" report
    finish_order,     \* history: the sources in the order their fetches ended
    merge_order       \* history: the sources in the order the loop took them

vars ==
    << sources, max_workers, pc, exit_status, fut, calls, yielded, pre_finished,
       waiter, cur, idx, combined, seen_channels, seen_programmes,
       total_channels, total_programmes, failed_sources, out_file, write_calls, write_io,
       done_printed, finish_order, merge_order >>

merger_vars ==
    << combined, seen_channels, seen_programmes, total_channels,
       total_programmes, failed_sources >>

Names == 1..Len(sources)

\* The registries of n sources: k working URLs followed by n - k URLs that
\* no Request accepts (the registry of the script holds the empty URL of usa5).
Registry(n, k) ==
    [i \in 1..n |->
        IF i <= k THEN (IF i % 2 = 1 THEN UrlXml ELSE UrlGz)
        ELSE (IF (i - k) % 2 = 1 THEN UrlEmpty ELSE UrlNoScheme)]

Init ==
    /\ \E n \in 0..MaxSources : \E k \in 0..n : sources = Registry(n, k)
    /\ max_workers \in -1..MaxWorkers
    /\ pc = "create_executor"
    /\ exit_status = None
    /\ fut = [name \in Names |-> [state |-> "unsubmitted", outcome |-> None]]
    /\ calls = [name \in Names |-> 0]
    /\ yielded = [name \in Names |-> 0]
    /\ pre_finished = {}
    /\ waiter = << >>
    /\ cur = 0
    /\ idx = 0
    /\ combined = << >>
    /\ seen_channels = {}
    /\ seen_programmes = {}
    /\ total_channels = 0
    /\ total_programmes = 0
    /\ failed_sources = << >>
    /\ out_file = None
    /\ write_calls = 0
    /\ write_io = None
    /\ done_printed = FALSE
    /\ finish_order = << >>
    /\ merge_order = << >>

(***************************************************************************)
(* The executor and its workers.                                           *)
(***************************************************************************)
InFlight == {name \in Names : fut[name].state = "running"}

Queued == {name \in Names : fut[name].state = "pending"}

Finished == {name \in Names : fut[name].state = "finished"}

\* as_completed has installed its waiter on the futures
WaiterInstalled == pc \notin {"create_executor", "submit"}

\* ThreadPoolExecutor(max_workers=max_workers): ValueError when max_workers <= 0
\* a pool that refuses only a negative limit
PoolRejectsNegativeOnly(w) == w < 0

\* ThreadPoolExecutor(max_workers=w) raises ValueError for w <= 0 (line 123)
PoolRejects(w) == w <= 0

CreateExecutor ==
    /\ pc = "create_executor"
    /\ IF PoolRejects(max_workers)
       THEN pc' = "exit" /\ exit_status' = Some(1)
       ELSE pc' = "submit" /\ UNCHANGED exit_status
    /\ UNCHANGED << sources, max_workers, fut, calls, yielded, pre_finished,
                    waiter, cur, idx, merger_vars, out_file, write_calls, write_io, done_printed,
                    finish_order, merge_order >>

\* executor.submit(fetch_epg, name, url) for the next item of sources.items()
Submit ==
    /\ pc = "submit"
    /\ \E name \in Names :
        /\ fut[name].state = "unsubmitted"
        /\ \A other \in Names : other < name => fut[other].state # "unsubmitted"
        /\ fut' = [fut EXCEPT ![name].state = "pending"]
    /\ UNCHANGED << sources, max_workers, pc, exit_status, calls, yielded,
                    pre_finished, waiter, cur, idx, merger_vars, out_file,
                    write_calls, write_io, done_printed,
                    finish_order, merge_order >>

\* A worker thread is free to take an item when fewer than max_workers run.
FreeWorkerUnbounded == TRUE

FreeWorkerOffByOne == Cardinality(InFlight) < max_workers - 1

FreeWorker == Cardinality(InFlight) < max_workers

\* A free worker takes the oldest queued work item and calls fetch_epg.
WorkerStart(name) ==
    /\ name \in Queued
    /\ \A other \in Queued : name <= other
    /\ FreeWorker
    /\ fut' = [fut EXCEPT ![name].state = "running"]
    /\ calls' = [calls EXCEPT ![name] = @ + 1]
    /\ UNCHANGED << sources, max_workers, pc, exit_status, yielded,
                    pre_finished, waiter, cur, idx, merger_vars, out_file,
                    write_calls, write_io, done_printed,
                    finish_order, merge_order >>

\* fetch_epg ends; the future is set and the waiter of as_completed notified.
WorkerFinish(name) ==
    /\ name \in InFlight
    /\ \E env \in Envs :
        fut' = [fut EXCEPT ![name] =
                   [state |-> "finished",
                    outcome |-> Some(fetch_epg(name, sources[name], env))]]
    /\ waiter' = IF WaiterInstalled THEN Append(waiter, name) ELSE waiter
    /\ finish_order' = Append(finish_order, name)
    /\ UNCHANGED << sources, max_workers, pc, exit_status, calls, yielded,
                    pre_finished, cur, idx, merger_vars, out_file, write_calls,
                    write_io, done_printed, merge_order >>

(***************************************************************************)
(* The merge: the body of the as_completed loop of combine_epg_files.      *)
(***************************************************************************)
AcceptChannelNoSeenCheck(channel_id, seen) == channel_id # ""

AcceptChannelNoEmptyCheck(channel_id, seen) == channel_id \notin seen

\* line 142: a channel is accepted when its id is non-empty and not yet seen
AcceptChannel(channel_id, seen) == channel_id # "" /\ channel_id \notin seen

AcceptProgrammeAlways(prog_key, seen) == TRUE

AcceptProgrammeNonEmpty(prog_key, seen) ==
    prog_key # <<"", "", "">> /\ prog_key \notin seen

\* line 156: a programme is accepted when its key is not yet seen
AcceptProgramme(prog_key, seen) == prog_key \notin seen

\* The merger's variables as one value.
Merger ==
    [combined |-> combined, seen_channels |-> seen_channels,
     seen_programmes |-> seen_programmes, total_channels |-> total_channels,
     total_programmes |-> total_programmes]

ChannelStepInsertFirst(m, channel) ==
    LET channel_id == Get(channel, "id")
    IN  IF AcceptChannel(channel_id, m.seen_channels)
        THEN [m EXCEPT !.seen_channels = @ \cup {channel_id},
                       !.combined = <<channel>> \o @,
                       !.total_channels = @ + 1]
        ELSE m

\* one pass of the loop of lines 140-145
ChannelStep(m, channel) ==
    LET channel_id == Get(channel, "id")
    IN  IF AcceptChannel(channel_id, m.seen_channels)
        THEN [m EXCEPT !.seen_channels = @ \cup {channel_id},
                       !.combined = Append(@, channel),
                       !.total_channels = @ + 1]
        ELSE m

\* a programme pass that forgets the counter of line 159
ProgrammeStepUncounted(m, programme) ==
    LET prog_key == ProgKey(programme)
    IN  IF AcceptProgramme(prog_key, m.seen_programmes)
        THEN [m EXCEPT !.seen_programmes = @ \cup {prog_key},
                       !.combined = Append(@, programme)]
        ELSE m

\* one pass of the loop of lines 148-159
ProgrammeStep(m, programme) ==
    LET prog_key == ProgKey(programme)
    IN  IF AcceptProgramme(prog_key, m.seen_programmes)
        THEN [m EXCEPT !.seen_programmes = @ \cup {prog_key},
                       !.combined = Append(@, programme),
                       !.total_programmes = @ + 1]
        ELSE m

RECURSIVE Fold(_, _, _, _)
\* the elements es[i..] folded into m, by the channel or the programme step
Fold(m, es, i, tag) ==
    IF i > Len(es) THEN m
    ELSE Fold(IF tag = "channel" THEN ChannelStep(m, es[i])
              ELSE ProgrammeStep(m, es[i]), es, i + 1, tag)

\* lines 139-159 for one root: its channels, then its programmes
MergeRoot(m, root) ==
    Fold(Fold(m, FindAll(root, "channel"), 1, "channel"),
         FindAll(root, "programme"), 1, "programme")

SetMerger(m) ==
    /\ combined' = m.combined
    /\ seen_channels' = m.seen_channels
    /\ seen_programmes' = m.seen_programmes
    /\ total_channels' = m.total_channels
    /\ total_programmes' = m.total_programmes

\* future.result() of a finished future
Result(name) == fut[name].outcome[1]

\* the root being merged
CurRoot == Result(cur).root[1]

\* Where the main thread goes with the channel loop at position i of root.
AtChannels(name, root, i) ==
    IF i <= Len(FindAll(root, "channel"))
    THEN pc' = "channels" /\ cur' = name /\ idx' = i
    ELSE IF Len(FindAll(root, "programme")) >= 1
    THEN pc' = "programmes" /\ cur' = name /\ idx' = 1
    ELSE pc' = "next_future" /\ cur' = 0 /\ idx' = 0

\* Where the main thread goes with the programme loop at position i of root.
AtProgrammes(name, root, i) ==
    IF i <= Len(FindAll(root, "programme"))
    THEN pc' = "programmes" /\ cur' = name /\ idx' = i
    ELSE pc' = "next_future" /\ cur' = 0 /\ idx' = 0

\* as_completed(futures) starts: it notes the futures already finished and
\* installs its waiter on all of them (lines 129, after the submit loop).
AsCompleted ==
    /\ pc = "submit"
    /\ \A name \in Names : fut[name].state # "unsubmitted"
    /\ pre_finished' = Finished
    /\ waiter' = << >>
    /\ pc' = "next_future"
    /\ UNCHANGED << sources, max_workers, exit_status, fut, calls, yielded, cur,
                    idx, merger_vars, out_file, write_calls, write_io, done_printed,
                    finish_order, merge_order >>

NextYieldOnlyFinishedAtStart == pre_finished

\* The futures as_completed may give next: any of those finished at its
\* start, then the others in the order in which they finished.
NextYield ==
    IF pre_finished # {} THEN pre_finished
    ELSE IF waiter # << >> THEN {Head(waiter)} ELSE {}

\* line 134: after recording a failure the loop continues with the next future
OnErrorBreak == "write"

OnError == "next_future"

\* lines 129-137: the next future, its result, the error and None cases
NextFuture ==
    /\ pc = "next_future"
    /\ \E name \in NextYield :
        /\ yielded' = [yielded EXCEPT ![name] = @ + 1]
        /\ merge_order' = Append(merge_order, name)
        /\ pre_finished' = pre_finished \ {name}
        /\ waiter' = IF pre_finished # {} THEN waiter ELSE Tail(waiter)
        /\ LET r == Result(name)
           IN  IF r.raised # None
               THEN /\ pc' = "exit" /\ exit_status' = Some(1)
                    /\ UNCHANGED << cur, idx, failed_sources >>
               ELSE IF Truthy(r.error)
               THEN /\ failed_sources' = Append(failed_sources, <<name, r.error[1]>>)
                    /\ pc' = OnError
                    /\ UNCHANGED << exit_status, cur, idx >>
               ELSE IF r.root = None
               THEN UNCHANGED << pc, exit_status, cur, idx, failed_sources >>
               ELSE /\ AtChannels(name, r.root[1], 1)
                    /\ UNCHANGED << exit_status, failed_sources >>
    /\ UNCHANGED << sources, max_workers, fut, calls, combined, seen_channels,
                    seen_programmes, total_channels, total_programmes,
                    out_file, write_calls, write_io, done_printed, finish_order >>

\* lines 140-145: one channel of the root being merged
AddChannel ==
    /\ pc = "channels"
    /\ SetMerger(ChannelStep(Merger, FindAll(CurRoot, "channel")[idx]))
    /\ AtChannels(cur, CurRoot, idx + 1)
    /\ UNCHANGED << sources, max_workers, exit_status, fut, calls, yielded,
                    pre_finished, waiter, failed_sources, out_file, write_calls, write_io, done_printed,
                    finish_order, merge_order >>

\* lines 148-159: one programme of the root being merged
AddProgramme ==
    /\ pc = "programmes"
    /\ SetMerger(ProgrammeStep(Merger, FindAll(CurRoot, "programme")[idx]))
    /\ AtProgrammes(cur, CurRoot, idx + 1)
    /\ UNCHANGED << sources, max_workers, exit_status, fut, calls, yielded,
                    pre_finished, waiter, failed_sources, out_file, write_calls, write_io, done_printed,
                    finish_order, merge_order >>

\* as_completed ends once it has given every future of futures.
NothingReady == NextYield = {}

AllConsumed == \A name \in Names : yielded[name] >= 1

\* as_completed is exhausted: the with block ends, the statistics are printed
\* and combine_epg_files returns combined (lines 161-172).
Return ==
    /\ pc = "next_future"
    /\ AllConsumed
    /\ pc' = "write"
    /\ UNCHANGED << sources, max_workers, exit_status, fut, calls, yielded,
                    pre_finished, waiter, cur, idx, merger_vars, out_file,
                    write_calls, write_io, done_printed,
                    finish_order, merge_order >>

\* line 165: the count printed as "Sources succeeded"
ReportedSucceeded == Len(sources) - Len(failed_sources)

\* lines 167-170: the count of the failures listed
ReportedFailed == Len(failed_sources)

(***************************************************************************)
(* write_xml and the end of main.                                          *)
(***************************************************************************)
\* what the file system does to the write: open() fails (unwritable path),
\* a write fails after open() truncated the file, or all of it succeeds
IoOutcomes == {"ok", "open_fails", "write_fails"}

\* Whether write_xml raises, which main lets escape (lines 211-214).
WriteSwallowed(io) == FALSE

WriteRaises(io) == io # "ok"

\* lines 174-189 and 211-214
WriteXml ==
    /\ pc = "write"
    /\ \E io \in IoOutcomes :
        /\ out_file' =
              CASE io = "ok" -> Some([complete |-> TRUE, children |-> combined])
                [] io = "write_fails" -> Some([complete |-> FALSE, children |-> << >>])
                [] OTHER -> out_file
        /\ write_io' = Some(io)
        /\ IF WriteRaises(io)
           THEN exit_status' = Some(1) /\ done_printed' = FALSE
           ELSE exit_status' = Some(0) /\ done_printed' = TRUE
    /\ write_calls' = write_calls + 1
    /\ pc' = "exit"
    /\ UNCHANGED << sources, max_workers, fut, calls, yielded, pre_finished,
                    waiter, cur, idx, merger_vars, finish_order, merge_order >>

Next ==
    \/ CreateExecutor
    \/ Submit
    \/ \E name \in Names : WorkerStart(name)
    \/ \E name \in Names : WorkerFinish(name)
    \/ AsCompleted
    \/ NextFuture
    \/ AddChannel
    \/ AddProgramme
    \/ Return
    \/ WriteXml

Spec == Init /\ [][Next]_vars

\* The steps of the main thread.
MainStep ==
    \/ CreateExecutor
    \/ Submit
    \/ AsCompleted
    \/ NextFuture
    \/ AddChannel
    \/ AddProgramme
    \/ Return
    \/ WriteXml

\* a step of the pool's worker threads
WorkerStep == \E name \in 1..MaxSources : WorkerStart(name) \/ WorkerFinish(name)

\* The run under a fair scheduler: the main thread keeps running, and the
\* pool does not stall while a fetch can start or end (urlopen has a
\* timeout, line 77).
FairSpec ==
    /\ Spec
    /\ WF_vars(MainStep)
    /\ WF_vars(WorkerStep)

(***************************************************************************)
(* Vocabulary of the properties.                                           *)
(***************************************************************************)
\* the fetch of the source ended with a document
Succeeded(name) ==
    /\ fut[name].outcome # None
    /\ Result(name).raised = None
    /\ Result(name).root # None

\* the fetch of the source ended with an error
Failed(name) == fut[name].outcome # None /\ ~Succeeded(name)

SucceededSources == {name \in Names : Succeeded(name)}

FailedSources == {name \in Names : Failed(name)}

Range(seq) == {seq[i] : i \in 1..Len(seq)}

\* the non-empty channel ids and the programme keys a root offers
ChannelIdsOf(root) == {Get(e, "id") : e \in Range(FindAll(root, "channel"))} \ {""}

ProgKeysOf(root) == {ProgKey(e) : e \in Range(FindAll(root, "programme"))}

OutChannels == FindAll(combined, "channel")

OutProgrammes == FindAll(combined, "programme")

\* combine_epg_files has returned the combined document
CombineReturned == pc = "write" \/ (pc = "exit" /\ write_calls = 1)

\* the same children, whatever objects they are
Content(root) == [i \in 1..Len(root) |-> [root[i] EXCEPT !.obj = None]]

(***************************************************************************)
(* C1.  At every point of a run no two channel elements of the combined    *)
(* document have the same id and no two programme elements the same        *)
(* (channel, start, stop) key, a missing attribute counting as ''.         *)
(***************************************************************************)
C1_UniqueIdentities ==
    /\ \A i, j \in 1..Len(OutChannels) :
          i # j => Get(OutChannels[i], "id") # Get(OutChannels[j], "id")
    /\ \A i, j \in 1..Len(OutProgrammes) :
          i # j => ProgKey(OutProgrammes[i]) # ProgKey(OutProgrammes[j])

\* two merged sources offered the same channel id and the same programme key
C1_Witness ==
    /\ CombineReturned
    /\ \E a, b \in SucceededSources :
          /\ a # b
          /\ ChannelIdsOf(Result(a).root[1]) \cap ChannelIdsOf(Result(b).root[1]) # {}
          /\ ProgKeysOf(Result(a).root[1]) \cap ProgKeysOf(Result(b).root[1]) # {}

\* the combined document is the deduplicated content of the successful sources
DocumentOfSuccesses ==
    /\ \A e \in Range(combined) :
          \E name \in SucceededSources : e \in Range(Result(name).root[1])
    /\ {Get(e, "id") : e \in Range(OutChannels)} =
          UNION {ChannelIdsOf(Result(name).root[1]) : name \in SucceededSources}
    /\ {ProgKey(e) : e \in Range(OutProgrammes)} =
          UNION {ProgKeysOf(Result(name).root[1]) : name \in SucceededSources}
    /\ C1_UniqueIdentities

\* failed_sources lists the failed sources, each once, with its error
FailureListOfFailures ==
    /\ Range(failed_sources) =
          {<<name, Result(name).error[1]>> : name \in FailedSources}
    /\ Len(failed_sources) = Cardinality(FailedSources)

(***************************************************************************)
(* C2.  When combine_epg_files returns, the combined document holds        *)
(* exactly the deduplicated channels and programmes of the sources that    *)
(* succeeded, and failed_sources holds exactly the sources that failed,    *)
(* each once, with its error.                                              *)
(***************************************************************************)
C2_FailureIsolation ==
    CombineReturned => DocumentOfSuccesses /\ FailureListOfFailures

\* C2, the half about the document alone, which the code does keep
C2_DocumentHalf == CombineReturned => DocumentOfSuccesses

(***************************************************************************)
(* C3.  The final sets of accepted channel ids and programme keys depend   *)
(* on the documents of the successful sources alone, not on the order in   *)
(* which the fetches completed; documents with channel ids 1,2 and 2,3     *)
(* yield exactly the three channels 1, 2, 3.                               *)
(***************************************************************************)
C3_OrderIndependence ==
    CombineReturned =>
        /\ seen_channels =
              UNION {ChannelIdsOf(Result(name).root[1]) : name \in SucceededSources}
        /\ {Get(e, "id") : e \in Range(OutChannels)} = seen_channels
        /\ seen_programmes =
              UNION {ProgKeysOf(Result(name).root[1]) : name \in SucceededSources}
        /\ {ProgKey(e) : e \in Range(OutProgrammes)} = seen_programmes
        /\ ({Content(Result(name).root[1]) : name \in SucceededSources} = {DocA, DocB}
              => seen_channels = {"1", "2", "3"} /\ Len(OutChannels) = 3)

\* sources 1 and 2 served ids 1,2 and 2,3, and source 2 was merged first
C3_Witness ==
    /\ CombineReturned
    /\ Names = {1, 2}
    /\ Succeeded(1) /\ Content(Result(1).root[1]) = DocA
    /\ Succeeded(2) /\ Content(Result(2).root[1]) = DocB
    /\ combined[1].obj = Some(<<2, 1>>)
    /\ Len(OutChannels) = 3

\* each source was dispatched once, gave one result, had it consumed once
ExactlyOnceEach ==
    \A name \in Names :
        /\ calls[name] = 1
        /\ fut[name].state = "finished" /\ Result(name).raised = None
        /\ yielded[name] = 1

(***************************************************************************)
(* C4.  As stated: in every run each source is dispatched to fetch_epg     *)
(* exactly once, yields exactly one result, and as_completed hands that    *)
(* result to the merge loop exactly once.                                  *)
(***************************************************************************)
C4_EveryRunDispatchesAll == pc = "exit" => ExactlyOnceEach

(***************************************************************************)
(* C4 as amended.  No source is ever dispatched or consumed twice, a       *)
(* result is consumed only after it was produced, and in every run whose   *)
(* executor is created (max_workers >= 1) combine_epg_files returns only   *)
(* when each source was dispatched once, gave one result and had it        *)
(* consumed once, whatever the other sources' results are.  With           *)
(* max_workers <= 0 the run ends with no source dispatched.                *)
(***************************************************************************)
C4_ExactlyOnce ==
    /\ \A name \in Names :
          /\ calls[name] <= 1
          /\ yielded[name] <= 1
          /\ yielded[name] = 1 => fut[name].state = "finished"
          /\ fut[name].state \in {"running", "finished"} <=> calls[name] = 1
    /\ (CombineReturned => max_workers >= 1 /\ ExactlyOnceEach)
    /\ (max_workers <= 0 => \A name \in Names : calls[name] = 0 /\ yielded[name] = 0)

\* a finished run of two sources of which one failed and one succeeded
C4_Witness ==
    /\ pc = "exit"
    /\ max_workers >= 1
    /\ Cardinality(SucceededSources) = 1
    /\ Cardinality(FailedSources) = 1
    /\ ExactlyOnceEach

(***************************************************************************)
(* C5.  With max_workers >= 1, at every moment at most max_workers calls   *)
(* of fetch_epg are in flight.                                             *)
(***************************************************************************)
C5_InFlightBound == max_workers >= 1 => Cardinality(InFlight) <= max_workers

\* every worker is busy while a source is still queued
C5_Witness ==
    /\ max_workers >= 1
    /\ Cardinality(InFlight) = max_workers
    /\ Queued # {}

(***************************************************************************)
(* C6.  A channel element whose id is missing or empty is never in the     *)
(* combined document, and '' is never in seen_channels.                    *)
(***************************************************************************)
C6_EmptyIdDropped ==
    /\ \A e \in Range(OutChannels) : e.id # None /\ e.id # Some("")
    /\ "" \notin seen_channels

\* a document with a channel without id and a channel with id '' was merged
C6_Witness ==
    /\ CombineReturned
    /\ \E name \in SucceededSources :
          /\ \E e \in Range(FindAll(Result(name).root[1], "channel")) : e.id = None
          /\ \E e \in Range(FindAll(Result(name).root[1], "channel")) : e.id = Some("")

\* a returned triple for name with exactly one of root and error not None
WellFormedResult(r, name) ==
    /\ r.raised = None
    /\ r.name = name
    /\ (r.root = None) # (r.error = None)

(***************************************************************************)
(* C7.  For every identifier, every locator (empty and malformed ones      *)
(* included) and every failure class, fetch_epg returns a result for that  *)
(* identifier with exactly one of root and error present (not None), and   *)
(* lets no exception escape: this holds of every call the function can     *)
(* receive (a statement about no variable, evaluated in the first state of *)
(* a run) and of every result a future of the run holds.                   *)
(***************************************************************************)
C7_FetchNeverRaises ==
    /\ pc = "create_executor" =>
          \A name \in 1..MaxSources : \A url \in Urls : \A env \in Envs :
              WellFormedResult(fetch_epg(name, url, env), name)
    /\ \A name \in Names :
          fut[name].outcome # None => WellFormedResult(Result(name), name)

\* a source with the empty locator and a source whose fetch raised an
\* exception with an empty message have both produced their results
C7_Witness ==
    /\ \E name \in Names :
          /\ sources[name] = UrlEmpty
          /\ fut[name].outcome # None
          /\ Result(name).error = Some(Str("ValueError"))
    /\ \E name \in Names :
          /\ fut[name].outcome # None
          /\ Result(name).error = Some("")

\* the merger at the start of combine_epg_files (lines 107-118)
EmptyMerger ==
    [combined |-> << >>, seen_channels |-> {}, seen_programmes |-> {},
     total_channels |-> 0, total_programmes |-> 0]

(***************************************************************************)
(* C8.  Merging a document that was just merged accepts nothing: from      *)
(* every merger state in which the loop takes its next result and for      *)
(* every document a source can serve, the combined                         *)
(* sequence, the seen sets and the totals after two merges equal those     *)
(* after one; and a run in which two sources served the same document      *)
(* retains what a single merge of it retains.                              *)
(***************************************************************************)
C8_MergeIdempotent ==
    /\ pc = "next_future" =>
          \A name \in Names : \A d \in Docs :
              LET root == Parse(name, d)
                  once == MergeRoot(Merger, root)
              IN  MergeRoot(once, root) = once
    /\ (/\ CombineReturned
        /\ Names = {1, 2}
        /\ Succeeded(1) /\ Succeeded(2)
        /\ Content(Result(1).root[1]) = Content(Result(2).root[1]))
       => LET single == MergeRoot(EmptyMerger, Result(1).root[1])
          IN  /\ Len(combined) = Len(single.combined)
              /\ seen_channels = single.seen_channels
              /\ seen_programmes = single.seen_programmes
              /\ total_channels = single.total_channels
              /\ total_programmes = single.total_programmes

\* both sources served the same document, of which entities were accepted,
\* and both were merged
C8_Witness ==
    /\ CombineReturned
    /\ Names = {1, 2}
    /\ Succeeded(1) /\ Succeeded(2)
    /\ Content(Result(1).root[1]) = Content(Result(2).root[1])
    /\ total_channels >= 1 /\ total_programmes >= 1
    /\ MergeRoot(EmptyMerger, Result(1).root[1]) # EmptyMerger

\* no source yielded a document
NoDocument == SucceededSources = {}

\* the output file holds a complete document with no child
WroteEmptyDocument == out_file = Some([complete |-> TRUE, children |-> << >>])

(***************************************************************************)
(* C9.  As stated: when no source yields a document (empty registry or     *)
(* every source failed) the run reaches the write step, writes a document  *)
(* with no channel and no programme, and ends with success status.         *)
(***************************************************************************)
C9_NoDocumentRunSucceeds ==
    (pc = "exit" /\ NoDocument) =>
        /\ write_calls = 1
        /\ WroteEmptyDocument
        /\ exit_status = Some(0)

(***************************************************************************)
(* C9 as amended.  When no source yields a document and the executor is    *)
(* created (max_workers >= 1), the run reaches the write step with a       *)
(* combined document of no channel and no programme; when that write       *)
(* succeeds the file holds this empty document and the run ends with       *)
(* success status, and when it fails the run ends with failure status.     *)
(***************************************************************************)
C9_NoDocumentReachesWrite ==
    /\ (CombineReturned /\ NoDocument) =>
          /\ combined = << >>
          /\ total_channels = 0 /\ total_programmes = 0
    /\ (pc = "exit" /\ NoDocument /\ max_workers >= 1) =>
          /\ write_calls = 1
          /\ \A name \in Names : Failed(name) /\ yielded[name] = 1
          /\ write_io = Some("ok") =>
                WroteEmptyDocument /\ exit_status = Some(0) /\ done_printed
          /\ write_io # Some("ok") =>
                ~WroteEmptyDocument /\ exit_status = Some(1) /\ ~done_printed

\* every one of two sources failed, and the empty document was written
C9_Witness ==
    /\ pc = "exit"
    /\ Names = {1, 2}
    /\ Failed(1) /\ Failed(2)
    /\ WroteEmptyDocument
    /\ exit_status = Some(0)

(***************************************************************************)
(* C10.  A failure of the write step ends the run in failure (status 1,    *)
(* no "Done!" report), and no fetch or parse failure of a source does: a   *)
(* run whose write succeeds ends in success whatever sources failed, and   *)
(* a run that created its executor ends in failure only when the write     *)
(* failed.                                                                 *)
(***************************************************************************)
C10_OnlyWriteFails ==
    pc = "exit" =>
        /\ (write_io # None /\ write_io # Some("ok")) =>
              exit_status = Some(1) /\ ~done_printed
        /\ write_io = Some("ok") =>
              /\ exit_status = Some(0) /\ done_printed
              /\ out_file = Some([complete |-> TRUE, children |-> combined])
        /\ (exit_status = Some(1) /\ max_workers >= 1) =>
              (write_calls = 1 /\ write_io # Some("ok"))
        /\ exit_status # None

\* the output path was unwritable in a run in which a source had failed
\* and another succeeded
C10_Witness ==
    /\ pc = "exit"
    /\ FailedSources # {} /\ SucceededSources # {}
    /\ write_io = Some("open_fails")
    /\ exit_status = Some(1)

(***************************************************************************)
(* More vocabulary: identity keys and the two orders of a run.             *)
(***************************************************************************)
\* the identity key of a channel or a programme element
KeyOf(e) == IF e.tag = "channel" THEN <<Get(e, "id")>> ELSE ProgKey(e)

\* the source whose parse created the element, and its place in that root
SourceOf(e) == e.obj[1][1]

PlaceOf(e) == e.obj[1][2]

\* the position of a source in a sequence of sources that holds it
Pos(order, name) == CHOOSE i \in 1..Len(order) : order[i] = name

\* the successful source offers an element of this tag with this key
Offers(name, tag, key) ==
    /\ Succeeded(name)
    /\ \E e \in Range(FindAll(Result(name).root[1], tag)) : KeyOf(e) = key

\* the retained element is the first of its key in its own document
FirstInDocument(e) ==
    \A j \in 1..(PlaceOf(e) - 1) :
        LET other == Result(SourceOf(e)).root[1][j]
        IN  other.tag = e.tag => KeyOf(other) # KeyOf(e)

\* no source placed before the element's source in order offers its key
FirstInOrder(e, order) ==
    /\ SourceOf(e) \in Range(order)
    /\ \A t \in Range(order) :
          Pos(order, t) < Pos(order, SourceOf(e)) => ~Offers(t, e.tag, KeyOf(e))

(***************************************************************************)
(* C11.  As stated: the retained element of every key of the output comes  *)
(* from the earliest-merged successful source that has the key, which is   *)
(* the earliest-completed one, and there from the first element carrying   *)
(* the key.                                                                *)
(***************************************************************************)
C11_FirstCompletedWins ==
    \A e \in Range(combined) :
        /\ FirstInOrder(e, merge_order)
        /\ FirstInOrder(e, finish_order)
        /\ FirstInDocument(e)

(***************************************************************************)
(* C11 as amended.  In every state, the retained element of every key of   *)
(* the output is the first one accepted with that key: it comes from the   *)
(* earliest-merged successful source that contains the key (the merge      *)
(* order is the order in which as_completed gives the results, which need  *)
(* not be the completion order for fetches that ended before as_completed  *)
(* started) and, within that source, from the first element in document    *)
(* order carrying it; no step replaces or removes a retained element.      *)
(***************************************************************************)
C11_FirstAcceptedWins ==
    /\ \A e \in Range(combined) :
          /\ e.tag \in {"channel", "programme"}
          /\ FirstInOrder(e, merge_order)
          /\ FirstInDocument(e)
    /\ CombineReturned =>
          \A name \in SucceededSources :
              \A x \in Range(Result(name).root[1]) :
                  (x.tag \in {"channel", "programme"} /\ KeyOf(x) # <<"">>) =>
                      \E e \in Range(combined) : e.tag = x.tag /\ KeyOf(e) = KeyOf(x)

\* both sources offered channel 2; source 2 was merged first and its element
\* is the one retained, source 1's being dropped
C11_Witness ==
    /\ CombineReturned
    /\ merge_order = <<2, 1>>
    /\ Offers(1, "channel", <<"2">>) /\ Offers(2, "channel", <<"2">>)
    /\ \E e \in Range(combined) :
          e.tag = "channel" /\ KeyOf(e) = <<"2">> /\ SourceOf(e) = 2

(***************************************************************************)
(* C12.  The merger state only grows: every step leaves the previous       *)
(* output sequence as a prefix of the new one and the previous seen sets   *)
(* as subsets of the new ones, so an accepted entity is never evicted,     *)
(* reordered or replaced during a run.                                     *)
(***************************************************************************)
C12_MergerOnlyGrows ==
    [][ /\ Len(combined) <= Len(combined')
        /\ SubSeq(combined', 1, Len(combined)) = combined
        /\ seen_channels \subseteq seen_channels'
        /\ seen_programmes \subseteq seen_programmes'
        /\ total_channels <= total_channels'
        /\ total_programmes <= total_programmes' ]_vars

\* the output holds a channel and a programme of one source followed by a
\* channel of the source merged after it
C12_Witness ==
    /\ Len(merge_order) = 2
    /\ \E i, j, k \in 1..Len(combined) :
          /\ i < j /\ j < k
          /\ combined[i].tag = "channel" /\ SourceOf(combined[i]) = merge_order[1]
          /\ combined[j].tag = "programme" /\ SourceOf(combined[j]) = merge_order[1]
          /\ combined[k].tag = "channel" /\ SourceOf(combined[k]) = merge_order[2]

\* a programme that has none of the attributes channel, start and stop
NoAttributes(e) ==
    e.tag = "programme" /\ e.channel = None /\ e.start = None /\ e.stop = None

\* a programme whose key is ('', '', ''): each attribute missing or empty
EmptyKey(e) == e.tag = "programme" /\ ProgKey(e) = <<"", "", "">>

\* how many elements of the output satisfy P
CountOut(P(_)) == Cardinality({i \in 1..Len(combined) : P(combined[i])})

(***************************************************************************)
(* C13.  As stated: exactly one programme without channel, start and stop  *)
(* attributes is retained when at least one successful source contains     *)
(* such a programme, and never more than one.                              *)
(***************************************************************************)
C13_OneAttributelessProgramme ==
    /\ CountOut(NoAttributes) <= 1
    /\ CombineReturned =>
          (CountOut(NoAttributes) = 1 <=>
              \E name \in SucceededSources :
                  \E e \in Range(Result(name).root[1]) : NoAttributes(e))

(***************************************************************************)
(* C13 as amended.  Programmes are keyed with missing attributes read as   *)
(* empty strings and the all-empty key is not dropped: never more than one *)
(* programme whose key is ('', '', '') is retained, and when the merge     *)
(* ends exactly one is retained if and only if a successful source         *)
(* contains a programme with that key, its attributes missing or empty.    *)
(* The one retained is the first accepted, which may be one whose          *)
(* attributes are present and empty, so that no attribute-less programme   *)
(* is retained although a source contains one.                             *)
(***************************************************************************)
C13_OneEmptyKeyProgramme ==
    /\ CountOut(EmptyKey) <= 1
    /\ CountOut(NoAttributes) <= CountOut(EmptyKey)
    /\ \A e \in Range(OutProgrammes) : ProgKey(e) \in seen_programmes
    /\ CombineReturned =>
          (CountOut(EmptyKey) = 1 <=>
              \E name \in SucceededSources :
                  \E e \in Range(Result(name).root[1]) : EmptyKey(e))

\* two merged sources both held an attribute-less programme; one is retained
C13_Witness ==
    /\ CombineReturned
    /\ Cardinality({name \in SucceededSources :
          \E e \in Range(Result(name).root[1]) : NoAttributes(e)}) = 2
    /\ CountOut(NoAttributes) = 1
    /\ CountOut(EmptyKey) = 1

(***************************************************************************)
(* C14.  At the end of the merge the succeeded-source count reported       *)
(* equals the number of sources whose fetch produced a document, the       *)
(* failed-source count the number of sources whose fetch produced an       *)
(* error, and the two sum to the number of sources of the registry.        *)
(***************************************************************************)
C14_SourceCounts ==
    CombineReturned =>
        /\ ReportedSucceeded = Cardinality(SucceededSources)
        /\ ReportedFailed = Cardinality(FailedSources)
        /\ ReportedSucceeded + ReportedFailed = Len(sources)

\* C14, the part the code keeps: the two counts sum to the registry's size,
\* and they are right for the failures whose message is not empty
C14_CountsOfNamedFailures ==
    CombineReturned =>
        /\ ReportedSucceeded + ReportedFailed = Len(sources)
        /\ ReportedFailed =
              Cardinality({name \in FailedSources : Result(name).error # Some("")})

\* every source's fetch has ended and its result has been taken and merged
AllResolvedAndMerged ==
    /\ \A name \in Names : fut[name].state = "finished" /\ yielded[name] = 1
    /\ Range(merge_order) = Names
    /\ cur = 0

(***************************************************************************)
(* C15.  Under a fair scheduler, with every started fetch ending, every    *)
(* run with max_workers >= 1 reaches the return of combine_epg_files, and  *)
(* combine_epg_files has returned only when every dispatched fetch has     *)
(* ended and its result been merged.                                       *)
(***************************************************************************)
C15_RunFinishes ==
    /\ <>[](max_workers >= 1 => CombineReturned)
    /\ [](CombineReturned => AllResolvedAndMerged)

\* a run of two sources through a single worker has returned
C15_Witness ==
    /\ CombineReturned
    /\ max_workers = 1
    /\ Names = {1, 2}
    /\ AllResolvedAndMerged

\* the source that was submitted first among those still queued
OldestQueued(name) == name \in Queued /\ \A other \in Queued : name <= other

\* a worker slot is free
FreeSlot == Cardinality(InFlight) < max_workers

\* a step that starts a fetch starts the oldest queued source, into a free slot
StartsOldest ==
    \A name \in 1..MaxSources :
        (name \in Queued /\ name \in InFlight') => (OldestQueued(name) /\ FreeSlot)

(***************************************************************************)
(* C16.  The pool is work-conserving: whenever a source is queued and      *)
(* fewer than max_workers fetches are in flight, the oldest queued source  *)
(* can be started at once and is the one a step starts; no run stays for   *)
(* ever in a state with a queued source and a free worker slot.            *)
(***************************************************************************)
C16_WorkConserving ==
    /\ [](\A name \in 1..MaxSources :
            (OldestQueued(name) /\ FreeSlot) => ENABLED WorkerStart(name))
    /\ [][StartsOldest]_vars
    /\ []<>(~(Queued # {} /\ FreeSlot))

\* with one worker, the second source was started after the fetch of the
\* first had ended
C16_Witness ==
    /\ max_workers = 1
    /\ Names = {1, 2}
    /\ fut[1].state = "finished"
    /\ fut[2].state = "running"

(***************************************************************************)
(* C17.  write_xml is called at most once in a run and only after the      *)
(* result of every source was taken by the merge loop; the document        *)
(* written is the final combined document, which lacks nothing of a        *)
(* source still in flight because none is.                                 *)
(***************************************************************************)
C17_WriteOnceAtTheEnd ==
    /\ write_calls <= 1
    /\ out_file # None => write_calls = 1
    /\ pc = "write" => write_calls = 0
    /\ (pc = "write" \/ write_calls = 1) =>
          /\ AllResolvedAndMerged
          /\ InFlight = {} /\ Queued = {}
          /\ Merger =
                LET RECURSIVE MergeAll(_, _)
                    MergeAll(m, i) ==
                        IF i > Len(merge_order) THEN m
                        ELSE MergeAll(
                                IF Succeeded(merge_order[i])
                                THEN MergeRoot(m, Result(merge_order[i]).root[1])
                                ELSE m, i + 1)
                IN  MergeAll(EmptyMerger, 1)
    /\ (out_file # None /\ out_file[1].complete) => out_file[1].children = combined

\* the file holds the channels of two sources, both merged before the write
C17_Witness ==
    /\ pc = "exit"
    /\ write_io = Some("ok")
    /\ \E e \in Range(out_file[1].children) : SourceOf(e) = 1
    /\ \E e \in Range(out_file[1].children) : SourceOf(e) = 2

(***************************************************************************)
(* C18.  At every point of the merge the accepted-channel total equals the *)
(* size of the seen-channel-id set and the number of channel elements of   *)
(* the combined document, and the accepted-programme total equals the size *)
(* of the seen-programme-key set and the number of programme elements of   *)
(* the combined document.  A point of the merge is the end of one pass of  *)
(* either loop.                                                            *)
(***************************************************************************)
C18_TotalsAgree ==
    /\ total_channels = Cardinality(seen_channels)
    /\ total_channels = Len(OutChannels)
    /\ total_programmes = Cardinality(seen_programmes)
    /\ total_programmes = Len(OutProgrammes)
    /\ Len(combined) = total_channels + total_programmes

\* two documents merged, duplicates of both kinds refused: three channels and
\* one programme counted of the five channels and two programmes offered
C18_Witness ==
    /\ pc = "next_future"
    /\ Names = {1, 2}
    /\ \A name \in Names : Succeeded(name) /\ yielded[name] >= 1
    /\ Len(FindAll(Result(1).root[1], "channel"))
          + Len(FindAll(Result(2).root[1], "channel")) = 5
    /\ total_channels = 3
    /\ total_programmes = 1

\* the elements of one source stand together in the output
ContiguousBlocks ==
    \A i, j, k \in 1..Len(combined) :
        (i < j /\ j < k /\ SourceOf(combined[i]) = SourceOf(combined[k])) =>
            SourceOf(combined[j]) = SourceOf(combined[i])

\* inside the block of one source no programme stands before a channel
ChannelsBeforeProgrammes ==
    \A i, j \in 1..Len(combined) :
        (i < j /\ SourceOf(combined[i]) = SourceOf(combined[j])) =>
            ~(combined[i].tag = "programme" /\ combined[j].tag = "channel")

\* the blocks of different sources stand in the order of the sequence order
BlocksFollow(order) ==
    \A i, j \in 1..Len(combined) :
        (i < j /\ SourceOf(combined[i]) # SourceOf(combined[j])) =>
            /\ SourceOf(combined[i]) \in Range(order)
            /\ SourceOf(combined[j]) \in Range(order)
            /\ Pos(order, SourceOf(combined[i])) < Pos(order, SourceOf(combined[j]))

\* what the two loops of lines 140-159 write
MergeState ==
    << combined, seen_channels, seen_programmes, total_channels, total_programmes >>

\* a step of the main thread inside one of the two loops, which leaves every
\* future alone and appends at most one element, of the result being merged
OnePassOfCur ==
    /\ pc \in {"channels", "programmes"}
    /\ fut' = fut
    /\ calls' = calls
    /\ \/ combined' = combined
       \/ /\ Len(combined') = Len(combined) + 1
          /\ SubSeq(combined', 1, Len(combined)) = combined
          /\ SourceOf(combined'[Len(combined')]) = cur

\* the result being merged is the last one taken, and no other one is taken
\* before its two loops have ended
SameResult ==
    /\ cur = merge_order[Len(merge_order)]
    /\ merge_order' = merge_order
    /\ cur' = cur \/ pc' = "next_future"

(***************************************************************************)
(* C19.  As stated: in the combined document the elements accepted from    *)
(* one source form a contiguous block, its channels before its programmes, *)
(* and the blocks appear in completion order.                              *)
(***************************************************************************)
C19_BlocksInCompletionOrder ==
    /\ ContiguousBlocks
    /\ ChannelsBeforeProgrammes
    /\ BlocksFollow(finish_order)

(***************************************************************************)
(* C19 as amended.  The merge of one fetch result is atomic with respect   *)
(* to other results and happens only in the main thread: a step that       *)
(* changes the seen sets, the totals or the output is a pass of one of the *)
(* two loops, changes no future, and appends at most one element of the    *)
(* result being merged; no other result is taken while one is merged.  In  *)
(* the combined document the elements accepted from one source form a      *)
(* contiguous block, its channels before its programmes, and the blocks    *)
(* appear in the order in which as_completed gave the results (the merge   *)
(* order, which is the completion order only among fetches that ended      *)
(* after as_completed started), so channels accepted from a later-merged   *)
(* source come after programmes of an earlier-merged one.                  *)
(***************************************************************************)
C19_BlocksInMergeOrder ==
    /\ [](ContiguousBlocks /\ ChannelsBeforeProgrammes /\ BlocksFollow(merge_order))
    /\ [][(MergeState' # MergeState) => OnePassOfCur]_vars
    /\ [][(pc \in {"channels", "programmes"}) => SameResult]_vars
    /\ [][(fut' # fut) => (MergeState' = MergeState)]_vars

\* the second fetch to end was merged first: a channel of the source that
\* ended first stands after a programme of the one that ended second
C19_Witness ==
    /\ finish_order = <<1, 2>>
    /\ merge_order = <<2, 1>>
    /\ \E i, j \in 1..Len(combined) :
          /\ i < j
          /\ combined[i].tag = "programme" /\ SourceOf(combined[i]) = 2
          /\ combined[j].tag = "channel" /\ SourceOf(combined[j]) = 1

\* nothing of the run after the pool's creation has happened
NothingDone ==
    /\ \A name \in Names :
          fut[name].state = "unsubmitted" /\ calls[name] = 0 /\ yielded[name] = 0
    /\ merge_order = << >> /\ finish_order = << >>
    /\ Merger = EmptyMerger
    /\ failed_sources = << >>
    /\ write_calls = 0
    /\ out_file = None
    /\ ~done_printed

(***************************************************************************)
(* C20.  With a worker limit W <= 0 the run aborts with an error when the  *)
(* worker pool is created: no fetch is dispatched, nothing is merged,      *)
(* write_xml is never called and no output file is written; the run ends   *)
(* with a non-zero status.                                                 *)
(***************************************************************************)
C20_NonPositiveLimitAborts ==
    /\ [](max_workers <= 0 =>
            /\ NothingDone
            /\ pc \in {"create_executor", "exit"}
            /\ pc = "exit" => exit_status = Some(1))
    /\ (max_workers <= 0) ~> (pc = "exit" /\ exit_status = Some(1) /\ NothingDone)

\* a run over two sources with a limit of zero, and one with a negative
\* limit, have ended at the pool's creation
C20_Witness ==
    /\ max_workers <= 0
    /\ Len(sources) = 2
    /\ pc = "exit"
    /\ exit_status = Some(1)

====
